---- MODULE Spec2Model ----
(***************************************************************************)
(* A model of src/components/altair/Altair.tsx: the AltairComponent React  *)
(* component.  It registers two tools with a live session, handles the     *)
(* session's "toolcall" events, keeps the two pieces of presentation state *)
(* (jsonString, roomResult), reports the presence of a room result to its  *)
(* parent and answers every tool call after a 200 ms timeout.              *)
(*                                                                         *)
(* One step of the model is one task of the JavaScript event loop: the     *)
(* mount, one "toolcall" event (all its listeners run to completion), one  *)
(* commit of a re-render (the effects whose dependencies changed), one     *)
(* expired timer, or the teardown.  A render that the parent or the        *)
(* context causes is committed in the task that causes it.  The variable   *)
(* event records the task that ran last, with its input and the calls it   *)
(* made on the collaborators (session client, parent callback).            *)
(*                                                                         *)
(* Scheduling: React commits the re-render a handler asked for before the  *)
(* next "toolcall" event is dispatched, and before the 200 ms timer that   *)
(* the same handler started expires.  An error that an effect leaves       *)
(* uncaught ends in the removal of the component.                          *)
(***************************************************************************)
EXTENDS Integers, Sequences, FiniteSets, TLC

\* Bounds of the model.
MaxBatches == 2     \* "toolcall" events the sessions emit in one run
MaxCalls == 2       \* function calls the sessions send in one run

\* ---------------------------------------------------------------------------
\* JavaScript values
\* ---------------------------------------------------------------------------
Null == [tag |-> "null"]
Undefined == [tag |-> "undefined"]
Str(s) == [tag |-> "string", v |-> s]
\* an object with its identity: two objects are the same (Object.is) only when
\* they are the same reference
Obj(ref, value) == [tag |-> "object", ref |-> ref, v |-> value]
EmptyObject == <<>>

\* !!v
Truthy(v) ==
    CASE v.tag = "string" -> v.v # ""
      [] v.tag = "object" -> TRUE
      [] OTHER -> FALSE

\* ---------------------------------------------------------------------------
\* The tool declarations
\* ---------------------------------------------------------------------------
chartDeclaration == [name |-> "render_altair", required |-> <<"json_graph">>]
roomInspectionDeclaration ==
    [name |-> "inspect_room", required |-> <<"assessment", "score">>]

\* setConfig and setModel of the context: the same functions at every render
SetConfig == "setConfig"
SetModel == "setModel"

ModelName == "models/gemini-2.0-flash-exp"
ConfigTools == <<"googleSearch", chartDeclaration.name, roomInspectionDeclaration.name>>

\* ---------------------------------------------------------------------------
\* Inputs: what the sessions can emit, what the parent can pass
\* ---------------------------------------------------------------------------
Clients == {"clientA", "clientB"}
Callbacks == {"cbA", "cbB"}
\* the json_graph texts the sessions send: a chart specification, and a text cut short
GraphTexts == {"{}", "{"}
Assessments == {<<"Tidy", 8>>, <<"Messy", 3>>}

\* A function call without its id: a name and, optionally, args.
Payloads ==
    {[name |-> chartDeclaration.name, args |-> [json_graph |-> t]] : t \in GraphTexts}
    \cup {[name |-> chartDeclaration.name, args |-> EmptyObject]}
    \cup {[name |-> chartDeclaration.name]}
    \cup {[name |-> roomInspectionDeclaration.name,
           args |-> [assessment |-> a[1], score |-> a[2]]] : a \in Assessments}
    \cup {[name |-> roomInspectionDeclaration.name]}
    \cup {[name |-> "unknown_tool", args |-> EmptyObject]}

\* The payloads of the function calls of one event of n calls.
PayloadLists(n) == [1..n -> Payloads]

\* The function calls of one event: the session numbers its calls.
FunctionCalls(payloads, firstId) ==
    [i \in 1..Len(payloads) |-> payloads[i] @@ [id |-> firstId + i - 1]]

\* JSON.parse(text) on the texts above: the value, or a SyntaxError
JsonParse(text) ==
    IF text = "{}" THEN [ok |-> TRUE, value |-> EmptyObject]
    ELSE [ok |-> FALSE, error |-> "SyntaxError"]

VARIABLES
    phase,          \* "unmounted" (not yet mounted), "mounted", "removed"
    jsonString,     \* useState<string>("")
    roomResult,     \* useState<{assessment, score} | null>(null)
    client,         \* the client useLiveAPIContext() returns
    callback,       \* the onRoomInspectionChange prop
    deps,           \* the dependencies of the effects at the last commit
    renderPending,  \* a re-render is scheduled and not yet committed
    listeners,      \* per client, how many onToolCall listeners are subscribed
    timers,         \* the pending setTimeout callbacks, in expiry order
    acked,          \* per event, how many responses the session has received
    configured,     \* how many times the configuration effect has run
    errors,         \* uncaught exceptions thrown by the handler
    emitted,        \* "toolcall" events emitted so far
    nextId,         \* the id of the session's next function call
    notified,       \* the argument of the last call of onRoomInspectionChange, if any
    event           \* the task that ran last

vars == <<phase, jsonString, roomResult, client, callback, deps, renderPending,
          listeners, timers, acked, configured, errors, emitted, nextId, notified,
          event>>

Init ==
    /\ phase = "unmounted"
    /\ jsonString = Str("")
    /\ roomResult = Null
    /\ client = "clientA"
    /\ callback = "cbA"
    /\ deps = [roomResult |-> Null, callback |-> "", client |-> "",
               setConfig |-> "", setModel |-> "", jsonString |-> Str("")]
    /\ renderPending = FALSE
    /\ listeners = [c \in Clients |-> 0]
    /\ timers = <<>>
    /\ acked = [k \in 1..MaxBatches |-> 0]
    /\ configured = 0
    /\ errors = 0
    /\ emitted = 0
    /\ nextId = 1
    /\ notified = <<>>
    /\ event = [type |-> "init", calls |-> <<>>]

\* ---------------------------------------------------------------------------
\* The effects
\* ---------------------------------------------------------------------------
\* as NotifyEffect, reporting roomResult !== undefined in place of !!roomResult
NotifyEffectNotUndefined(rr, cb) ==
    <<[fn |-> "onRoomInspectionChange", callback |-> cb, arg |-> rr.tag # "undefined"]>>

\* useEffect(() => onRoomInspectionChange?.(!!roomResult), [roomResult, onRoomInspectionChange])
NotifyEffect(rr, cb) ==
    <<[fn |-> "onRoomInspectionChange", callback |-> cb, arg |-> Truthy(rr)]>>

\* useEffect(() => { setModel(...); setConfig(...) }, [setConfig, setModel])
ConfigEffect ==
    <<[fn |-> "setModel", arg |-> ModelName],
      [fn |-> "setConfig", tools |-> ConfigTools]>>

\* as NotifyDepsChanged, with the dependency array [onRoomInspectionChange]
NotifyDepsCallbackOnly(prev, rr, cb) == prev.callback # cb

\* as NotifyDepsChanged, comparing the presence of a result, not the result
NotifyPresenceChanged(prev, rr, cb) ==
    Truthy(prev.roomResult) # Truthy(rr) \/ prev.callback # cb

\* as ConfigDepsChanged, without a dependency array
ConfigDepsAlways(prev, sc, sm) == TRUE

\* The dependency arrays: does the effect run again at this commit?
\* [roomResult, onRoomInspectionChange]
NotifyDepsChanged(prev, rr, cb) == prev.roomResult # rr \/ prev.callback # cb

\* [setConfig, setModel]
ConfigDepsChanged(prev, sc, sm) == prev.setConfig # sc \/ prev.setModel # sm

\* [client]
SubscribeDepsChanged(prev, c) == prev.client # c

\* [embedRef, jsonString]: embedRef is the same ref object at every render
VegaDepsChanged(prev, js) == prev.jsonString # js

\* useEffect(() => { if (embedRef.current && jsonString) { console.log(...);
\* vegaEmbed(embedRef.current, JSON.parse(jsonString)) } }, [embedRef, jsonString])
\* The div that embedRef refers to is rendered when jsonString is truthy.  A
\* SyntaxError of JSON.parse leaves the effect uncaught, before vegaEmbed.
VegaEffect(js) ==
    IF ~Truthy(js) THEN <<>>
    ELSE <<[fn |-> "console.log", arg |-> js.v]>>
         \o (IF JsonParse(js.v).ok
             THEN <<[fn |-> "vegaEmbed", arg |-> JsonParse(js.v).value]>>
             ELSE <<[fn |-> "uncaught", error |-> JsonParse(js.v).error]>>)

\* an effect among those that made calls ended in an error
Throws(calls) == \E i \in 1..Len(calls) : calls[i].fn = "uncaught"

\* as AfterEffects, the effect catching the error of JSON.parse
AfterEffectsCaught(ph, calls) == ph

\* The effect has no try/catch: React removes a component whose effect throws
\* (its cleanups run), alone or with the tree around it.
AfterEffects(ph, calls) == IF Throws(calls) THEN "removed" ELSE ph

\* as Resubscribe, the effect returning no cleanup
ResubscribeNoOff(ls, old, new) == [ls EXCEPT ![new] = @ + 1]

\* the cleanup of the subscription effect, then the effect, with another client
Resubscribe(ls, old, new) == [ls EXCEPT ![old] = @ - 1, ![new] = @ + 1]

\* the argument of the last call of onRoomInspectionChange among calls, if any
LastNotified(before, calls) ==
    LET cs == SelectSeq(calls, LAMBDA x : x.fn = "onRoomInspectionChange")
    IN  IF cs = <<>> THEN before ELSE <<cs[Len(cs)].arg>>

\* the initial render and its effects
Mount ==
    /\ phase = "unmounted"
    /\ phase' = "mounted"
    /\ deps' = [roomResult |-> roomResult, callback |-> callback, client |-> client,
                setConfig |-> SetConfig, setModel |-> SetModel,
                jsonString |-> jsonString]
    /\ listeners' = [listeners EXCEPT ![client] = @ + 1]
    /\ configured' = configured + 1
    /\ event' = [type |-> "mount",
                 calls |-> NotifyEffect(roomResult, callback) \o ConfigEffect
                           \o <<[fn |-> "on", client |-> client]>>
                           \o VegaEffect(jsonString)]
    /\ notified' = LastNotified(notified, event'.calls)
    /\ UNCHANGED <<jsonString, roomResult, client, callback, renderPending,
                   timers, acked, errors, emitted, nextId>>

\* ---------------------------------------------------------------------------
\* onToolCall
\* ---------------------------------------------------------------------------
\* as Find, falling back on the first call when no name matches
FindOrFirst(functionCalls, name) ==
    IF \E i \in 1..Len(functionCalls) : functionCalls[i].name = name
    THEN CHOOSE i \in 1..Len(functionCalls) :
            /\ functionCalls[i].name = name
            /\ \A j \in 1..(i - 1) : functionCalls[j].name # name
    ELSE IF Len(functionCalls) > 0 THEN 1 ELSE 0

\* functionCalls.find((fc) => fc.name === name): the index of the first match, 0 if none
Find(functionCalls, name) ==
    IF \E i \in 1..Len(functionCalls) : functionCalls[i].name = name
    THEN CHOOSE i \in 1..Len(functionCalls) :
            /\ functionCalls[i].name = name
            /\ \A j \in 1..(i - 1) : functionCalls[j].name # name
    ELSE 0

\* (chartFc.args as any).json_graph
JsonGraph(args) ==
    IF "json_graph" \in DOMAIN args THEN Str(args.json_graph) ELSE Undefined

\* as ChartBranch, without setRoomResult(null)
ChartBranchKeepsRoom(st, toolCall) ==
    LET i == Find(toolCall.functionCalls, chartDeclaration.name)
    IN  IF i = 0 THEN st
        ELSE IF "args" \notin DOMAIN toolCall.functionCalls[i]
        THEN [st EXCEPT !.thrown = TRUE]
        ELSE [st EXCEPT !.jsonString = JsonGraph(toolCall.functionCalls[i].args)]

\* The chart branch.  st is the handler's view of the component: jsonString,
\* roomResult, timers and whether it has thrown.  Reading json_graph of a call
\* that carries no args is a TypeError: the handler ends there.
ChartBranch(st, toolCall) ==
    LET i == Find(toolCall.functionCalls, chartDeclaration.name)
    IN  IF i = 0 THEN st
        ELSE IF "args" \notin DOMAIN toolCall.functionCalls[i]
        THEN [st EXCEPT !.thrown = TRUE]
        ELSE [st EXCEPT !.jsonString = JsonGraph(toolCall.functionCalls[i].args),
                        !.roomResult = Null]

\* as RoomBranch, without setJSONString("")
RoomBranchKeepsChart(st, toolCall) ==
    LET i == Find(toolCall.functionCalls, roomInspectionDeclaration.name)
    IN  IF i = 0 THEN st
        ELSE [st EXCEPT !.roomResult =
                            IF "args" \in DOMAIN toolCall.functionCalls[i]
                            THEN Obj(<<toolCall.seq, i>>, toolCall.functionCalls[i].args)
                            ELSE Undefined]

\* The room branch.
RoomBranch(st, toolCall) ==
    LET i == Find(toolCall.functionCalls, roomInspectionDeclaration.name)
    IN  IF i = 0 THEN st
        ELSE [st EXCEPT !.roomResult =
                            IF "args" \in DOMAIN toolCall.functionCalls[i]
                            THEN Obj(<<toolCall.seq, i>>, toolCall.functionCalls[i].args)
                            ELSE Undefined,
                        !.jsonString = Str("")]

\* as ScheduleResponse, without the test of the length
ScheduleResponseAlways(st, toolCall, c) ==
    [st EXCEPT !.timers = Append(@, [client |-> c, toolCall |-> toolCall])]

\* as ScheduleResponse, skipping function calls whose response is already pending
ScheduleResponseOnce(st, toolCall, c) ==
    IF /\ Len(toolCall.functionCalls) # 0
       /\ \A i \in 1..Len(st.timers) :
             st.timers[i].toolCall.functionCalls # toolCall.functionCalls
    THEN [st EXCEPT !.timers = Append(@, [client |-> c, toolCall |-> toolCall])]
    ELSE st

\* if (toolCall.functionCalls.length) setTimeout(() => client.sendToolResponse(...), 200)
ScheduleResponse(st, toolCall, c) ==
    IF Len(toolCall.functionCalls) # 0
    THEN [st EXCEPT !.timers = Append(@, [client |-> c, toolCall |-> toolCall])]
    ELSE st

onToolCall(st, toolCall, c) ==
    IF "functionCalls" \notin DOMAIN toolCall THEN st
    ELSE LET afterChart == ChartBranch(st, toolCall)
         IN  IF afterChart.thrown THEN afterChart
             ELSE ScheduleResponse(RoomBranch(afterChart, toolCall), toolCall, c)

\* client.emit("toolcall", toolCall) with n listeners subscribed: each runs in
\* turn; an exception leaves emit
RECURSIVE EmitTo(_, _, _, _)
EmitTo(n, st, toolCall, c) ==
    IF n = 0 \/ st.thrown THEN st
    ELSE EmitTo(n - 1, onToolCall(st, toolCall, c), toolCall, c)

\* the callback of setTimeout
ToolResponse(toolCall) ==
    [functionResponses |->
        [i \in 1..Len(toolCall.functionCalls) |->
            [response |-> [output |-> [success |-> TRUE]],
             id |-> toolCall.functionCalls[i].id,
             name |-> toolCall.functionCalls[i].name]]]

\* as DelayElapsed, the response sent without a delay
DelayElapsedAtOnce(t) == TRUE

\* The 200 ms of a timer have passed: the render its handler scheduled is
\* committed by then.
DelayElapsed(t) == t.toolCall.seq < emitted \/ ~renderPending

\* ---------------------------------------------------------------------------
\* The tasks
\* ---------------------------------------------------------------------------
\* A session client emits a "toolcall" event: new function calls, a message
\* without any, or once more the function calls that still wait for their response.
Emit(c, toolCall) ==
    /\ LET st == EmitTo(listeners[c],
                        [jsonString |-> jsonString, roomResult |-> roomResult,
                         timers |-> timers, thrown |-> FALSE],
                        toolCall, c)
       IN  /\ jsonString' = st.jsonString
           /\ roomResult' = st.roomResult
           /\ timers' = st.timers
           /\ errors' = errors + (IF st.thrown THEN 1 ELSE 0)
           /\ renderPending' = (st.jsonString # jsonString \/ st.roomResult # roomResult)
    /\ emitted' = emitted + 1
    /\ nextId' = nextId + (IF "functionCalls" \in DOMAIN toolCall
                           THEN Cardinality({i \in 1..Len(toolCall.functionCalls) :
                                                toolCall.functionCalls[i].id >= nextId})
                           ELSE 0)
    /\ event' = [type |-> "toolcall", client |-> c, toolCall |-> toolCall,
                 listeners |-> listeners[c], calls |-> <<>>]
    /\ UNCHANGED <<phase, client, callback, deps, listeners, acked, configured,
                   notified>>

ToolCallEvent ==
    /\ phase # "unmounted"
    /\ emitted < MaxBatches
    /\ ~renderPending
    /\ \E c \in Clients :
        \/ \E n \in 0..(MaxCalls - (nextId - 1)) : \E payloads \in PayloadLists(n) :
              Emit(c, [seq |-> emitted + 1,
                      functionCalls |-> FunctionCalls(payloads, nextId)])
        \/ Emit(c, [seq |-> emitted + 1])
        \/ /\ timers # <<>>
           /\ Emit(c, [seq |-> emitted + 1,
                       functionCalls |-> timers[Len(timers)].toolCall.functionCalls])

\* React renders the component with client c and callback cb and commits: the
\* effects whose dependencies changed run, cleanups first.
Render(c, cb) ==
    /\ phase = "mounted"
    /\ LET notify == NotifyDepsChanged(deps, roomResult, cb)
           configure == ConfigDepsChanged(deps, SetConfig, SetModel)
           resubscribe == SubscribeDepsChanged(deps, c)
           embed == VegaDepsChanged(deps, jsonString)
           effects ==
               (IF resubscribe
                THEN <<[fn |-> "off", client |-> deps.client]>> ELSE <<>>)
               \o (IF notify THEN NotifyEffect(roomResult, cb) ELSE <<>>)
               \o (IF configure THEN ConfigEffect ELSE <<>>)
               \o (IF resubscribe THEN <<[fn |-> "on", client |-> c]>> ELSE <<>>)
               \o (IF embed THEN VegaEffect(jsonString) ELSE <<>>)
           subscribed ==
               IF resubscribe THEN Resubscribe(listeners, deps.client, c)
               ELSE listeners
       IN  /\ configured' = configured + (IF configure THEN 1 ELSE 0)
           /\ phase' = AfterEffects(phase, effects)
           /\ listeners' =
                IF phase' = "removed" THEN [subscribed EXCEPT ![c] = @ - 1]
                ELSE subscribed
           /\ event' = [type |-> "render",
                        calls |->
                            effects
                            \o (IF phase' = "removed"
                                THEN <<[fn |-> "off", client |-> c]>> ELSE <<>>)]
    /\ notified' = LastNotified(notified, event'.calls)
    /\ client' = c
    /\ callback' = cb
    /\ deps' = [roomResult |-> roomResult, callback |-> cb, client |-> c,
                setConfig |-> SetConfig, setModel |-> SetModel,
                jsonString |-> jsonString]
    /\ renderPending' = FALSE
    /\ UNCHANGED <<jsonString, roomResult, timers, acked, errors, emitted, nextId>>

\* The re-render a handler scheduled.
Commit == renderPending /\ Render(client, callback)

\* The parent renders the component with another onRoomInspectionChange.
CallbackChange == \E cb \in Callbacks \ {callback} : Render(client, cb)

\* The context provides another client.
ClientChange == \E c \in Clients \ {client} : Render(c, callback)

\* The oldest timer expires.
TimerFire ==
    /\ timers # <<>>
    /\ DelayElapsed(Head(timers))
    /\ timers' = Tail(timers)
    /\ acked' = [acked EXCEPT ![Head(timers).toolCall.seq] = @ + 1]
    /\ event' = [type |-> "timer", toolCall |-> Head(timers).toolCall,
                 calls |-> <<[fn |-> "sendToolResponse", client |-> Head(timers).client,
                              arg |-> ToolResponse(Head(timers).toolCall)]>>]
    /\ UNCHANGED <<phase, jsonString, roomResult, client, callback, deps,
                   renderPending, listeners, configured, errors, emitted, nextId,
                   notified>>

\* as Unmount, the cleanup also clearing the timeouts that are pending
UnmountClearsTimers ==
    /\ phase = "mounted"
    /\ phase' = "removed"
    /\ listeners' = [listeners EXCEPT ![deps.client] = @ - 1]
    /\ renderPending' = FALSE
    /\ timers' = <<>>
    /\ event' = [type |-> "unmount", calls |-> <<[fn |-> "off", client |-> deps.client]>>]
    /\ UNCHANGED <<jsonString, roomResult, client, callback, deps, acked,
                   configured, errors, emitted, nextId, notified>>

\* as Unmount, the effect returning no cleanup
UnmountKeepsListener ==
    /\ phase = "mounted"
    /\ phase' = "removed"
    /\ renderPending' = FALSE
    /\ event' = [type |-> "unmount", calls |-> <<>>]
    /\ UNCHANGED <<jsonString, roomResult, client, callback, deps, listeners, timers,
                   acked, configured, errors, emitted, nextId, notified>>

\* The component is removed: the cleanup of the subscription effect runs.
Unmount ==
    /\ phase = "mounted"
    /\ phase' = "removed"
    /\ listeners' = [listeners EXCEPT ![deps.client] = @ - 1]
    /\ renderPending' = FALSE
    /\ event' = [type |-> "unmount", calls |-> <<[fn |-> "off", client |-> deps.client]>>]
    /\ UNCHANGED <<jsonString, roomResult, client, callback, deps, timers, acked,
                   configured, errors, emitted, nextId>>
    /\ UNCHANGED notified

Next ==
    \/ Mount
    \/ ToolCallEvent
    \/ Commit
    \/ TimerFire
    \/ CallbackChange
    \/ ClientChange
    \/ Unmount

Spec == Init /\ [][Next]_vars

\* ---------------------------------------------------------------------------
\* Properties
\* ---------------------------------------------------------------------------
IsChart == Truthy(jsonString)
IsInspection == Truthy(roomResult)

Calls(toolCall) ==
    IF "functionCalls" \in DOMAIN toolCall THEN toolCall.functionCalls ELSE <<>>
Named(functionCalls, name) ==
    {i \in 1..Len(functionCalls) : functionCalls[i].name = name}
Charts(toolCall) == Named(Calls(toolCall), "render_altair")
Rooms(toolCall) == Named(Calls(toolCall), "inspect_room")

\* the task that ran last dispatched a "toolcall" event to the handler
Dispatched == event.type = "toolcall" /\ event.listeners > 0

CallbackCalls(calls) == SelectSeq(calls, LAMBDA x : x.fn = "onRoomInspectionChange")
ConfigCalls(calls) == SelectSeq(calls, LAMBDA x : x.fn \in {"setModel", "setConfig"})

\* C1: in every reachable state the chart text is non-empty and the inspection
\* record is present never both at once.
C1_MutualExclusion == ~(IsChart /\ IsInspection)

\* a batch with both names was dispatched
C1_Witness ==
    /\ Dispatched
    /\ Charts(event.toolCall) # {}
    /\ Rooms(event.toolCall) # {}
    /\ IsInspection
    /\ ~IsChart

\* C2 (as claimed): every non-empty batch the handler is given gets exactly one
\* acknowledgment batch: right after the dispatch its timer is pending, no batch
\* is acknowledged twice, and the acknowledgment echoes the id and the name of
\* every call, in order, with the success payload.
C2_EveryBatchAcknowledged ==
    /\ (Dispatched /\ Len(Calls(event.toolCall)) > 0) =>
            Cardinality({i \in 1..Len(timers) : timers[i].toolCall = event.toolCall}) = 1
    /\ \A k \in 1..MaxBatches : acked[k] <= 1
    /\ event.type = "timer" =>
            /\ Len(event.calls) = 1
            /\ event.calls[1].fn = "sendToolResponse"
            /\ LET rs == event.calls[1].arg.functionResponses
                   fcs == event.toolCall.functionCalls
               IN  /\ Len(rs) = Len(fcs)
                   /\ \A i \in 1..Len(fcs) :
                        /\ rs[i].id = fcs[i].id
                        /\ rs[i].name = fcs[i].name
                        /\ rs[i].response = [output |-> [success |-> TRUE]]

\* the batch holds exactly one render_altair call, with a well-formed json_graph
OneChart(toolCall) ==
    /\ Cardinality(Charts(toolCall)) = 1
    /\ \A i \in Charts(toolCall) :
        /\ "args" \in DOMAIN toolCall.functionCalls[i]
        /\ "json_graph" \in DOMAIN toolCall.functionCalls[i].args
        /\ JsonParse(toolCall.functionCalls[i].args.json_graph).ok

ChartOf(toolCall) ==
    Str(toolCall.functionCalls[CHOOSE i \in Charts(toolCall) : TRUE].args.json_graph)

\* C3 (as claimed): after the dispatch of a batch with exactly one render_altair
\* call with a well-formed json_graph the state is Chart(json_graph), the
\* inspection cleared.
C3_OneChartGivesChart ==
    (Dispatched /\ OneChart(event.toolCall)) =>
        (jsonString = ChartOf(event.toolCall) /\ roomResult = Null)

\* C3 (amended): ... and no inspect_room call ...
C3_OneChartNoRoomGivesChart ==
    (Dispatched /\ OneChart(event.toolCall) /\ Rooms(event.toolCall) = {}) =>
        (jsonString = ChartOf(event.toolCall) /\ roomResult = Null)

\* such a batch was dispatched while the committed state was Inspection
C3_Witness ==
    /\ Dispatched
    /\ OneChart(event.toolCall)
    /\ Rooms(event.toolCall) = {}
    /\ Truthy(deps.roomResult)
    /\ IsChart
    /\ roomResult = Null

\* the batch holds exactly one inspect_room call, with assessment and score
OneRoom(toolCall) ==
    /\ Cardinality(Rooms(toolCall)) = 1
    /\ \A i \in Rooms(toolCall) :
        /\ "args" \in DOMAIN toolCall.functionCalls[i]
        /\ {"assessment", "score"} \subseteq DOMAIN toolCall.functionCalls[i].args

\* C4 (as claimed): after the dispatch of a batch with exactly one inspect_room
\* call with assessment and score the state is Inspection with those values, the
\* chart cleared.
C4_OneRoomGivesInspection ==
    (Dispatched /\ OneRoom(event.toolCall)) =>
        /\ roomResult.tag = "object"
        /\ roomResult.v =
              event.toolCall.functionCalls[CHOOSE i \in Rooms(event.toolCall) : TRUE].args
        /\ jsonString = Str("")

\* C5: the dispatch of a batch that is empty, or without any render_altair or
\* inspect_room call, leaves jsonString and roomResult as they were, and nothing
\* is thrown.
C5_UnrecognizedLeavesState ==
    [][(/\ event'.type = "toolcall"
        /\ Charts(event'.toolCall) = {}
        /\ Rooms(event'.toolCall) = {})
       => (/\ jsonString' = jsonString
           /\ roomResult' = roomResult
           /\ errors' = errors
           /\ ~renderPending')]_vars

\* a batch of unknown calls was dispatched in state Inspection
C5_Witness ==
    /\ Dispatched
    /\ Len(Calls(event.toolCall)) > 0
    /\ Charts(event.toolCall) = {}
    /\ Rooms(event.toolCall) = {}
    /\ IsInspection

\* C6 (as claimed): at the commit after a batch the callback is called exactly
\* once when the presence of an inspection result changed, and not at all when
\* it did not.
C6_OncePerPresenceChange ==
    [][(event'.type = "render" /\ callback' = deps.callback)
       => Len(CallbackCalls(event'.calls)) =
            (IF Truthy(deps.roomResult) # Truthy(roomResult') THEN 1 ELSE 0)]_vars

\* C6 (amended): at a commit the callback is called exactly once, with the
\* presence of a result, when roomResult is another value than at the commit
\* before (or the callback is another function), and not at all otherwise; no
\* other task after the mount calls it.
C6_OncePerResultChange ==
    [][/\ event'.type = "render" =>
            CallbackCalls(event'.calls) =
                (IF deps.roomResult # roomResult' \/ deps.callback # callback'
                 THEN <<[fn |-> "onRoomInspectionChange", callback |-> callback',
                         arg |-> Truthy(roomResult')]>>
                 ELSE <<>>)
       /\ event'.type \in {"toolcall", "timer", "unmount"} =>
            CallbackCalls(event'.calls) = <<>>]_vars

\* an inspection result replaced another one and the callback was called again
C6_Witness ==
    /\ event.type = "render"
    /\ CallbackCalls(event.calls) =
          <<[fn |-> "onRoomInspectionChange", callback |-> callback, arg |-> TRUE]>>
    /\ Len(timers) = 2
    /\ \A i \in 1..2 : OneRoom(timers[i].toolCall) /\ Charts(timers[i].toolCall) = {}

\* C7: the mount calls the callback with false before it subscribes the
\* handler, so before any batch is dispatched; and when a chart batch clears an
\* inspection result a render is scheduled whose commit calls it with false.
C7_NotifiedFalse ==
    [][/\ event'.type = "mount" =>
            /\ \A c \in Clients : listeners[c] = 0
            /\ emitted' = 0
            /\ Head(event'.calls) =
                  [fn |-> "onRoomInspectionChange", callback |-> callback', arg |-> FALSE]
       /\ (event'.type = "toolcall" /\ IsInspection /\ roomResult' = Null) =>
            renderPending'
       /\ (event'.type = "render" /\ Truthy(deps.roomResult) /\ roomResult' = Null) =>
            CallbackCalls(event'.calls) =
                <<[fn |-> "onRoomInspectionChange", callback |-> callback',
                   arg |-> FALSE]>>]_vars

\* an inspection batch, then a chart batch, and the commit that reports false
C7_Witness ==
    /\ event.type = "render"
    /\ CallbackCalls(event.calls) =
          <<[fn |-> "onRoomInspectionChange", callback |-> callback, arg |-> FALSE]>>
    /\ IsChart
    /\ Len(timers) = 2
    /\ OneRoom(timers[1].toolCall)
    /\ OneChart(timers[2].toolCall)

\* C8: once the component is removed no listener is subscribed, and a batch a
\* session emits changes neither jsonString nor roomResult and starts no timer.
C8_NoDispatchAfterTeardown ==
    [][phase = "removed" =>
        /\ \A c \in Clients : listeners[c] = 0
        /\ event'.type = "toolcall" =>
            /\ event'.listeners = 0
            /\ jsonString' = jsonString
            /\ roomResult' = roomResult
            /\ timers' = timers]_vars

\* after the teardown the client the handler was subscribed to emitted a chart batch
C8_Witness ==
    /\ phase = "removed"
    /\ event.type = "toolcall"
    /\ event.client = deps.client
    /\ OneChart(event.toolCall)

\* C9: when the handler is given once more the chart batch it was given last
\* (render_altair calls, no inspect_room call), jsonString and roomResult stay
\* what the first delivery made them, and the second delivery starts a timer of
\* its own.
C9_ChartBatchIdempotent ==
    [][(/\ event'.type = "toolcall"
        /\ event'.listeners > 0
        /\ timers # <<>>
        /\ timers[Len(timers)].toolCall.seq = emitted
        /\ Calls(event'.toolCall) = timers[Len(timers)].toolCall.functionCalls
        /\ Charts(event'.toolCall) # {}
        /\ Rooms(event'.toolCall) = {})
       => (/\ jsonString' = jsonString
           /\ roomResult' = roomResult
           /\ timers' = Append(timers, [client |-> event'.client,
                                        toolCall |-> event'.toolCall]))]_vars

\* the same chart batch was dispatched twice and both responses are pending
C9_Witness ==
    /\ Dispatched
    /\ OneChart(event.toolCall)
    /\ Rooms(event.toolCall) = {}
    /\ jsonString = ChartOf(event.toolCall)
    /\ Len(timers) = 2
    /\ timers[1].toolCall.functionCalls = timers[2].toolCall.functionCalls
    /\ timers[2].toolCall = event.toolCall

\* C10: the configuration effect runs once, at the mount: setModel, then
\* setConfig with the search tool and the two declarations; no later task
\* calls either again.
C10_ConfiguredOncePerMount ==
    /\ configured = (IF phase = "unmounted" THEN 0 ELSE 1)
    /\ ConfigCalls(event.calls) =
          (IF event.type = "mount"
           THEN <<[fn |-> "setModel", arg |-> "models/gemini-2.0-flash-exp"],
                  [fn |-> "setConfig",
                   tools |-> <<"googleSearch", "render_altair", "inspect_room">>]>>
           ELSE <<>>)

\* two batches changed the state twice and were committed
C10_Witness ==
    /\ configured = 1
    /\ emitted = 2
    /\ event.type = "render"
    /\ IsChart
    /\ Len(timers) = 2
    /\ OneRoom(timers[1].toolCall)

\* the timers pending for event number k
Pending(k) == {i \in 1..Len(timers) : timers[i].toolCall.seq = k}

\* C11: no response is sent that does not answer a received event with function
\* calls.  An event with an empty functionCalls list, or with none, schedules
\* no timer and calls nothing; a timer that fires answers an event that was
\* emitted, with at least one function call, and it is the timer that event
\* scheduled; every emitted event has at most one response pending or sent, and
\* an event not yet emitted has none.  So the responses sent never outnumber
\* the events received with function calls.
C11_NoUnsolicitedResponse ==
    [][/\ (event'.type = "toolcall" /\ Len(Calls(event'.toolCall)) = 0)
            => /\ timers' = timers
               /\ acked' = acked
               /\ event'.calls = <<>>
       /\ event'.type = "timer"
            => /\ Len(Calls(event'.toolCall)) > 0
               /\ event'.toolCall.seq <= emitted
               /\ timers # <<>> /\ Head(timers).toolCall = event'.toolCall
               /\ Len(event'.calls) = 1
               /\ Len(event'.calls[1].arg.functionResponses)
                      = Len(event'.toolCall.functionCalls)
       /\ \A i \in 1..Len(timers') : Len(Calls(timers'[i].toolCall)) > 0
       /\ \A k \in 1..MaxBatches :
             acked'[k] + Cardinality(Pending(k)') <= (IF k <= emitted' THEN 1 ELSE 0)
      ]_vars

\* an event with an empty functionCalls list was dispatched after an answered
\* one: one response sent, nothing pending
C11_Witness ==
    /\ Dispatched
    /\ "functionCalls" \in DOMAIN event.toolCall
    /\ event.toolCall.functionCalls = <<>>
    /\ emitted = 2
    /\ acked[1] = 1 /\ acked[2] = 0
    /\ timers = <<>>

\* the first inspect_room call of the batch
FirstRoom(toolCall) ==
    toolCall.functionCalls[Find(toolCall.functionCalls, roomInspectionDeclaration.name)]

\* C12 (as claimed): after the dispatch of a batch with both a render_altair call
\* and an inspect_room call with arguments, in either order, the state is
\* Inspection with the arguments of the inspect_room call and the chart text is
\* empty.
C12_RoomWinsOverChart ==
    (/\ Dispatched
     /\ Charts(event.toolCall) # {}
     /\ Rooms(event.toolCall) # {}
     /\ "args" \in DOMAIN FirstRoom(event.toolCall)) =>
        /\ roomResult.tag = "object"
        /\ roomResult.v = FirstRoom(event.toolCall).args
        /\ jsonString = Str("")

\* the first render_altair call of the batch
FirstChart(toolCall) ==
    toolCall.functionCalls[Find(toolCall.functionCalls, chartDeclaration.name)]

\* the response to toolCall is pending, with one item for each of its calls
ResponsePending(toolCall) ==
    \E i \in 1..Len(timers) :
        /\ timers[i].toolCall = toolCall
        /\ Len(ToolResponse(timers[i].toolCall).functionResponses)
               = Len(toolCall.functionCalls)

\* C13 (as claimed): after the dispatch of a batch with several render_altair
\* calls the chart text is the json_graph of the first of them, and after one
\* with several inspect_room calls roomResult holds the arguments of the first
\* of them; the response to every call of the batch, the later ones included,
\* is scheduled.
C13_FirstOfSameNameDecides ==
    /\ (Dispatched /\ Cardinality(Charts(event.toolCall)) > 1) =>
          /\ Rooms(event.toolCall) = {} =>
                /\ "args" \in DOMAIN FirstChart(event.toolCall)
                      => jsonString = JsonGraph(FirstChart(event.toolCall).args)
                /\ roomResult = Null
          /\ ResponsePending(event.toolCall)
    /\ (Dispatched /\ Cardinality(Rooms(event.toolCall)) > 1) =>
          /\ "args" \in DOMAIN FirstRoom(event.toolCall)
                => /\ roomResult.tag = "object"
                   /\ roomResult.v = FirstRoom(event.toolCall).args
          /\ jsonString = Str("")
          /\ ResponsePending(event.toolCall)

\* the presentation state: the chart text shown, if any, and the inspection
\* result shown, if any, without the identity of its object
Presentation(js, rr) ==
    [jsonString |-> IF Truthy(js) THEN js ELSE Str(""),
     roomResult |-> IF Truthy(rr) THEN [tag |-> "object", v |-> rr.v] ELSE Null]

\* the presentation state of a second run, in which the handler receives
\* toolCall in the state after construction
FromEmpty(toolCall) ==
    LET st == onToolCall([jsonString |-> Str(""), roomResult |-> Null,
                          timers |-> <<>>, thrown |-> FALSE], toolCall, client)
    IN  Presentation(st.jsonString, st.roomResult)

\* C14 (as claimed): the state after the dispatch of a batch with a
\* render_altair or an inspect_room call depends on the batch alone: whatever
\* the state before, it is the state that a run receiving the same batch in the
\* state after construction ends in.
C14_StateReplaced ==
    (/\ Dispatched
     /\ Charts(event.toolCall) \cup Rooms(event.toolCall) # {}) =>
        Presentation(jsonString, roomResult) = FromEmpty(event.toolCall)

\* C15: a pending response is never cancelled.  The removal of the component
\* leaves every timer pending; once the component is removed the delay of the
\* first timer elapses, and the only change of the timers is that it fires and
\* sends the response of its batch, all its items, to the client it was
\* scheduled for.
C15_ResponseSurvivesUnmount ==
    [][/\ event'.type = "unmount" => timers' = timers
       /\ (phase' = "removed" /\ timers' # <<>>) => DelayElapsed(Head(timers))'
       /\ (phase = "removed" /\ timers' # timers) =>
             /\ event'.type = "timer"
             /\ timers' = Tail(timers)
             /\ acked' = [acked EXCEPT ![Head(timers).toolCall.seq] = @ + 1]
             /\ event'.calls = <<[fn |-> "sendToolResponse",
                                  client |-> Head(timers).client,
                                  arg |-> ToolResponse(Head(timers).toolCall)]>>
      ]_vars

\* the response of a batch was sent after the removal of the component
C15_Witness ==
    /\ phase = "removed"
    /\ event.type = "timer"
    /\ event.calls[1].fn = "sendToolResponse"
    /\ acked[event.toolCall.seq] = 1

C17_SeparateResponsesInOrder ==
    [][/\ (/\ event'.type = "toolcall" /\ event'.listeners > 0
           /\ timers # <<>>
           /\ Len(Calls(event'.toolCall)) > 0) =>
             /\ timers' = Append(timers, [client |-> event'.client,
                                          toolCall |-> event'.toolCall])
             /\ IF Charts(event'.toolCall) \cup Rooms(event'.toolCall) # {}
                THEN Presentation(jsonString', roomResult') = FromEmpty(event'.toolCall)
                ELSE jsonString' = jsonString /\ roomResult' = roomResult
       /\ event'.type = "timer" =>
             /\ event'.toolCall = Head(timers).toolCall
             /\ timers' = Tail(timers)
             /\ \A i \in 1..Len(timers') :
                   timers'[i].toolCall.seq > event'.toolCall.seq
             /\ event'.calls[1].arg = ToolResponse(event'.toolCall)
      ]_vars

VegaCalls(calls) == SelectSeq(calls, LAMBDA x : x.fn = "vegaEmbed")
UncaughtCalls(calls) == SelectSeq(calls, LAMBDA x : x.fn = "uncaught")
ParseCalls(calls) == SelectSeq(calls, LAMBDA x : x.fn \in {"vegaEmbed", "uncaught"})

\* the chart text is not empty and JSON.parse rejects it
Malformed(js) == Truthy(js) /\ ~JsonParse(js.v).ok

\* C18: a chart text that is not empty and does not parse ends the render
\* attempt in a fatal error.  The render that commits such a text as a new chart
\* text attempts the parse once: the SyntaxError leaves the effect uncaught,
\* vegaEmbed is not called, jsonString stays as it is and the component is
\* removed.  Nothing is tried again: once removed, the component parses and
\* embeds nothing and its jsonString stays.  Only a malformed text fails, and
\* vegaEmbed is only ever called with the value JSON.parse gives for the chart
\* text.
C18_MalformedChartFails ==
    [][/\ event'.type = "render" =>
             /\ (Malformed(jsonString) /\ deps.jsonString # jsonString) =>
                   /\ Len(UncaughtCalls(event'.calls)) = 1
                   /\ VegaCalls(event'.calls) = <<>>
                   /\ jsonString' = jsonString
                   /\ phase' = "removed"
             /\ UncaughtCalls(event'.calls) # <<>> => Malformed(jsonString)
             /\ \A i \in 1..Len(VegaCalls(event'.calls)) :
                   /\ JsonParse(jsonString.v).ok
                   /\ VegaCalls(event'.calls)[i].arg = JsonParse(jsonString.v).value
       /\ phase = "removed" =>
             /\ ParseCalls(event'.calls) = <<>>
             /\ jsonString' = jsonString
             /\ phase' = "removed"
      ]_vars

\* the render of a malformed chart text failed: the text is still the chart text
C18_Witness ==
    /\ phase = "removed"
    /\ event.type = "render"
    /\ UncaughtCalls(event.calls) # <<>>
    /\ Malformed(jsonString)
    /\ deps.jsonString = jsonString

\* C19: whenever the component is mounted and no re-render waits for its
\* commit, the last call of onRoomInspectionChange passed the presence of the
\* inspection result: true exactly when the state is Inspection.
C19_ParentInSync ==
    (phase = "mounted" /\ ~renderPending) => notified = <<IsInspection>>

\* the render after an inspect_room batch told the parent true
C19_Witness ==
    /\ phase = "mounted"
    /\ ~renderPending
    /\ event.type = "render"
    /\ CallbackCalls(event.calls) # <<>>
    /\ IsInspection
    /\ notified = <<TRUE>>

\* C20: at most one handler of the component is subscribed at any time: while
\* the component is mounted exactly one, on the client of the last commit, and
\* none before the mount and after the removal.  So an event is dispatched to
\* one handler at most, schedules one timer at most, and no batch is answered
\* twice.
C20_OneSubscription ==
    /\ \A c \in Clients :
          listeners[c] = (IF phase = "mounted" /\ c = deps.client THEN 1 ELSE 0)
    /\ event.type = "toolcall" => event.listeners <= 1
    /\ \A k \in 1..MaxBatches : acked[k] + Cardinality(Pending(k)) <= 1

\* after the context replaced the client, a batch of the new client was
\* dispatched and answered once, on the new client
C20_Witness ==
    /\ phase = "mounted"
    /\ deps.client = "clientB"
    /\ listeners = [c \in Clients |-> IF c = "clientB" THEN 1 ELSE 0]
    /\ event.type = "timer"
    /\ event.calls[1].client = "clientB"
    /\ acked[event.toolCall.seq] = 1

====
